---- MODULE Spec2Model ----
(***************************************************************************)
(* Model of the StyleCheck word generator (src/main.py): module-level      *)
(* configuration, the sanitizer sanitize_and_parse_json, the inference     *)
(* client call_hf and the two routes root and generate.                    *)
(*                                                                         *)
(* Text is a sequence of one-character strings.  An HTTP response is the   *)
(* outcome of a handler: a returned body, a raised HTTPException (status   *)
(* and detail), or an exception that leaves the handler uncaught.          *)
(***************************************************************************)
EXTENDS Integers, Sequences, FiniteSets, TLC

(***************************************************************************)
(* Bounds of the model.                                                    *)
(***************************************************************************)
NumReqs == 2
MaxWs == 1
MaxProse == 2

(***************************************************************************)
(* Characters and Python string helpers.                                   *)
(***************************************************************************)
NoneVal == "<None>"

IsSpace(c) == c \in {" ", "\n"}

Lower(c) ==
    CASE c = "J" -> "j"
      [] c = "S" -> "s"
      [] c = "O" -> "o"
      [] c = "N" -> "n"
      [] OTHER -> c

RECURSIVE Repeat(_, _)
Repeat(c, n) == IF n = 0 THEN <<>> ELSE <<c>> \o Repeat(c, n - 1)

\* Number of whitespace characters of s starting at position i.
RECURSIVE SpaceRun(_, _)
SpaceRun(s, i) ==
    IF i <= Len(s) /\ IsSpace(s[i]) THEN 1 + SpaceRun(s, i + 1) ELSE 0

\* Number of whitespace characters of s ending at position i.
RECURSIVE SpaceRunBack(_, _)
SpaceRunBack(s, i) ==
    IF i >= 1 /\ IsSpace(s[i]) THEN 1 + SpaceRunBack(s, i - 1) ELSE 0

\* str.strip()
Strip(s) ==
    LET a == SpaceRun(s, 1)
    IN  IF a = Len(s) THEN <<>>
        ELSE SubSeq(s, a + 1, Len(s) - SpaceRunBack(s, Len(s)))

\* s has the characters of t at positions i .. i+Len(t)-1, ignoring case.
HasAt(s, i, t) ==
    /\ i >= 1
    /\ i + Len(t) - 1 <= Len(s)
    /\ \A k \in 1..Len(t) : Lower(s[i + k - 1]) = t[k]

\* The backtick character of the fences is written "'" in this module.
Backtick == "'"

Fence == <<Backtick, Backtick, Backtick>>
JsonTag == <<"j", "s", "o", "n">>

\* The fence-stripping substitution of sanitize_and_parse_json: a leading
\* fence with an optional json tag (any case) and following whitespace, and
\* a trailing fence with preceding whitespace, are removed.
\* Length of the match of the first alternative at position 1 (0: no match).
LeadFenceLen(s) ==
    IF ~HasAt(s, 1, Fence) THEN 0
    ELSE LET t == IF HasAt(s, 4, JsonTag) THEN 7 ELSE 3
         IN  t + SpaceRun(s, t + 1)

\* Position where the end-of-string anchor holds after a fence: the end of s,
\* or just before a final newline.
AnchorEnd(s) ==
    IF Len(s) >= 1 /\ s[Len(s)] = "\n" THEN Len(s) - 1 ELSE Len(s)

\* Start of the match of the second alternative at or after position from
\* (0: no match).
TrailFenceStart(s, from) ==
    LET f == AnchorEnd(s) - 2
    IN  IF HasAt(s, f, Fence) /\ f >= from
        THEN LET p == f - SpaceRunBack(s, f - 1)
             IN  IF p >= from THEN p ELSE from
        ELSE 0

StripFences(s) ==
    LET l == LeadFenceLen(s)
        p == TrailFenceStart(s, l + 1)
    IN  IF p = 0 THEN SubSeq(s, l + 1, Len(s))
        ELSE SubSeq(s, l + 1, p - 1) \o SubSeq(s, AnchorEnd(s) + 1, Len(s))

\* The greedy brace search: from the first opening brace to the last closing
\* brace, newlines included.
FirstOpen(s) ==
    IF \E i \in 1..Len(s) : s[i] = "{"
    THEN CHOOSE i \in 1..Len(s) : s[i] = "{" /\ \A k \in 1..(i - 1) : s[k] # "{"
    ELSE 0

LastClose(s) ==
    IF \E i \in 1..Len(s) : s[i] = "}"
    THEN CHOOSE i \in 1..Len(s) : s[i] = "}" /\ \A k \in (i + 1)..Len(s) : s[k] # "}"
    ELSE 0

\* Variant: the search stops at the first closing brace (a lazy match).
SearchBracesLazy(s) ==
    LET i == FirstOpen(s)
        j == IF i = 0 \/ ~(\E k \in (i + 1)..Len(s) : s[k] = "}") THEN 0
             ELSE CHOOSE k \in (i + 1)..Len(s) :
                      s[k] = "}" /\ \A h \in (i + 1)..(k - 1) : s[h] # "}"
    IN  IF j > i THEN [found |-> TRUE, span |-> SubSeq(s, i, j)]
        ELSE [found |-> FALSE, span |-> <<>>]

\* The match of the search: found is FALSE when there is none.
SearchBraces(s) ==
    LET i == FirstOpen(s)
        j == LastClose(s)
    IN  IF i > 0 /\ j > i THEN [found |-> TRUE, span |-> SubSeq(s, i, j)]
        ELSE [found |-> FALSE, span |-> <<>>]

(***************************************************************************)
(* json.loads on the characters of the model: strings without escapes and  *)
(* objects.  A parsed string is [t |-> "str", s |-> characters]; a parsed  *)
(* object is [t |-> "obj", m |-> set of <<key, value>>], one pair per key, *)
(* the last one of a repeated key.                                         *)
(***************************************************************************)
Quote == "\""

StrVal(s) == [t |-> "str", s |-> s, m |-> {}]
ObjVal(m) == [t |-> "obj", s |-> <<>>, m |-> m]

NoVal == [t |-> "none", s |-> <<>>, m |-> {}]

Fail(msg, i) == [ok |-> FALSE, err |-> msg, v |-> NoVal, i |-> i]
Done(v, i) == [ok |-> TRUE, err |-> "", v |-> v, i |-> i]

SkipWs(s, i) == i + SpaceRun(s, i)

\* Position of the first quote or control character (newline) at or after i,
\* or 0 when the text ends first.
RECURSIVE StringStop(_, _)
StringStop(s, i) ==
    IF i > Len(s) THEN 0
    ELSE IF s[i] = Quote \/ s[i] = "\n" THEN i
    ELSE StringStop(s, i + 1)

\* The string whose opening quote is at i.
ParseString(s, i) ==
    LET k == StringStop(s, i + 1)
    IN  IF k = 0 THEN Fail("Unterminated string starting at", i)
        ELSE IF s[k] # Quote THEN Fail("Invalid control character at", k)
        ELSE Done(StrVal(SubSeq(s, i + 1, k - 1)), k + 1)

PutPair(m, key, val) == {p \in m : p[1] # key} \cup {<<key, val>>}

RECURSIVE ParseValue(_, _)
RECURSIVE ParseMembers(_, _, _)

\* The members of an object from the key whose opening quote is expected at
\* i, up to and including the closing brace; m holds the pairs read so far.
ParseMembers(s, i, m) ==
    IF i > Len(s) \/ s[i] # Quote
    THEN Fail("Expecting property name enclosed in double quotes", i)
    ELSE LET key == ParseString(s, i)
         IN  IF ~key.ok THEN key
             ELSE LET c == SkipWs(s, key.i)
                  IN  IF c > Len(s) \/ s[c] # ":"
                      THEN Fail("Expecting ':' delimiter", c)
                      ELSE LET val == ParseValue(s, SkipWs(s, c + 1))
                           IN  IF ~val.ok THEN val
                               ELSE LET e  == SkipWs(s, val.i)
                                        m2 == PutPair(m, key.v.s, val.v)
                                    IN  IF e <= Len(s) /\ s[e] = "}"
                                        THEN Done(ObjVal(m2), e + 1)
                                        ELSE IF e <= Len(s) /\ s[e] = ","
                                        THEN ParseMembers(s, SkipWs(s, e + 1), m2)
                                        ELSE Fail("Expecting ',' delimiter", e)

\* The object whose opening brace is at i.
ParseObject(s, i) ==
    LET a == SkipWs(s, i + 1)
    IN  IF a <= Len(s) /\ s[a] = "}" THEN Done(ObjVal({}), a + 1)
        ELSE ParseMembers(s, a, {})

ParseValue(s, i) ==
    IF i > Len(s) THEN Fail("Expecting value", i)
    ELSE IF s[i] = Quote THEN ParseString(s, i)
    ELSE IF s[i] = "{" THEN ParseObject(s, i)
    ELSE Fail("Expecting value", i)

\* json.loads(s): one value with optional whitespace around it.
JsonLoads(s) ==
    LET r == ParseValue(s, SkipWs(s, 1))
    IN  IF ~r.ok THEN r
        ELSE IF SkipWs(s, r.i) <= Len(s) THEN Fail("Extra data", SkipWs(s, r.i))
        ELSE r

(***************************************************************************)
(* sanitize_and_parse_json: the parsed object, or the raised error.        *)
(***************************************************************************)
NoJsonMsg == "No JSON object found in model output."

sanitize_and_parse_json(s) ==
    LET m == SearchBraces(StripFences(Strip(s)))
    IN  IF ~m.found THEN Fail(NoJsonMsg, 0)
        ELSE JsonLoads(m.span)

(***************************************************************************)
(* Module-level configuration.                                             *)
(***************************************************************************)
DefaultModel == "meta-llama/Meta-Llama-3-8B-Instruct:novita"
DefaultOrigin == "*"

\* os.getenv(name) and os.getenv(name, default): an unset variable is NoneVal.
GetEnv(value, default) == IF value = NoneVal THEN default ELSE value

\* Variant: "HF_TOKEN is None".
TokenMissingNoneOnly(tok) == tok = NoneVal

\* "not HF_TOKEN": None and the empty string are both false.
TokenMissing(tok) == tok = NoneVal \/ tok = ""

EnvKeys == {NoneVal, "", "hf_key"}
EnvModels == {NoneVal, "", "some/model"}
EnvOrigins == {NoneVal, "https://shop.example"}

(***************************************************************************)
(* Upstream replies.  A reply is an HTTP response with a status and a raw  *)
(* body, or the failure of requests.post (timeout, connection error).  A   *)
(* body is plain text, JSON without the chat-completion envelope, or an    *)
(* envelope carrying the model's text in choices[0].message.content.       *)
(***************************************************************************)
Text(form, content) == [form |-> form, content |-> content]
NoBody == Text("none", <<>>)

FencedGood ==
    Fence \o JsonTag \o <<"\n", "{", Quote, "x", Quote, ":", " ", Quote, "x", Quote, "}", "\n">> \o Fence
BareEmpty == <<"{", "}">>
NoBraces == <<"x", "x">>
BadSpan == <<"{", "x", "}">>

Contents == {FencedGood, BareEmpty, NoBraces, BadSpan}

Bodies ==
    {Text("text", <<"x">>), Text("json", BareEmpty)}
        \cup {Text("envelope", c) : c \in Contents}

Statuses == {200, 201, 404, 500}

HttpReply(status, body) == [kind |-> "http", status |-> status, body |-> body]
PostFailure(exc) == [kind |-> exc, status |-> 0, body |-> NoBody]
NoReply == [kind |-> "none", status |-> 0, body |-> NoBody]

Replies ==
    {HttpReply(s, b) : s \in Statuses, b \in Bodies}
        \cup {PostFailure("Timeout"), PostFailure("ConnectionError")}

(***************************************************************************)
(* Outcomes of a handler.                                                  *)
(***************************************************************************)
\* The detail of an HTTPException: a literal message, the upstream's raw body
\* (text), or the formatted message of the 502 (pre, err, raw).
Detail(pre, err, raw, text) == [pre |-> pre, err |-> err, raw |-> raw, text |-> text]
LitDetail(msg) == Detail(msg, "", <<>>, NoBody)
TextDetail(body) == Detail("", "", <<>>, body)
NoDetail == LitDetail("")

NoBodyJson == [status |-> "", model |-> "", generated |-> NoVal]

Outcome(kind, status, detail, body, exc) ==
    [kind |-> kind, status |-> status, detail |-> detail, body |-> body, exc |-> exc]

Return(body) == Outcome("return", 200, NoDetail, body, "")
HTTPException(status, detail) == Outcome("HTTPException", status, detail, NoBodyJson, "")
\* An exception that no code of the handler catches: it leaves the handler
\* and the server answers with its generic 500 page, without a detail.
Uncaught(exc) == Outcome("exception", 500, NoDetail, NoBodyJson, exc)
NoResp == Outcome("none", 0, NoDetail, NoBodyJson, "")

(***************************************************************************)
(* build_prompt and call_hf.                                               *)
(***************************************************************************)
build_prompt(attributes_text) ==
    [template |-> "fashion-naming-prompt", attributes |-> attributes_text]

Payload(model, prompt) ==
    [model |-> model, messages |-> <<[role |-> "user", content |-> prompt]>>,
     temperature |-> "0.7", top_p |-> "0.9", max_tokens |-> 380, stream |-> FALSE]
NoPayload == Payload("", build_prompt(""))

\* "r.status_code != 200"
IsStatusError(status) == status # 200

\* Variant: every upstream status error becomes a 502.
PassthroughErrorAs502(reply) == HTTPException(502, TextDetail(reply.body))

PassthroughError(reply) == HTTPException(reply.status, TextDetail(reply.body))

\* r.json()["choices"][0]["message"]["content"]: the content, or the exception
\* raised outside the try block.
ExtractContent(body) ==
    IF body.form = "envelope" THEN [ok |-> TRUE, content |-> body.content, exc |-> ""]
    ELSE IF body.form = "json" THEN [ok |-> FALSE, content |-> <<>>, exc |-> "KeyError"]
    ELSE [ok |-> FALSE, content |-> <<>>, exc |-> "JSONDecodeError"]

InvalidJson(err, content) == HTTPException(502, Detail("Invalid JSON from model: ", err, content, NoBody))

\* Variant: generate answers only with the name fields it finds.
GeneratedFiltered(result) ==
    Return([status |-> "", model |-> "",
            generated |-> ObjVal({q \in result.m : q[1] = <<"three_word_name">>})])

\* generate's return statement.
Generated(result) == Return([status |-> "", model |-> "", generated |-> result])

\* The part of call_hf and generate after requests.post has answered: the
\* outcome of the request and whether the content reached the sanitizer.
AfterPost(reply) ==
    IF reply.kind # "http" THEN [resp |-> Uncaught(reply.kind), parsed |-> FALSE]
    ELSE IF IsStatusError(reply.status) THEN [resp |-> PassthroughError(reply), parsed |-> FALSE]
    ELSE LET c == ExtractContent(reply.body)
         IN  IF ~c.ok THEN [resp |-> Uncaught(c.exc), parsed |-> FALSE]
             ELSE LET r == sanitize_and_parse_json(c.content)
                  IN  IF r.ok THEN [resp |-> Generated(r.v), parsed |-> TRUE]
                      ELSE [resp |-> InvalidJson(r.err, c.content), parsed |-> TRUE]

(***************************************************************************)
(* Inputs of the sanitizer check: an object, fences, whitespace and prose. *)
(***************************************************************************)
\* The serialization of a value as json.dumps writes it, the pairs of an
\* object in some order.
DumpStr(s) == <<Quote>> \o s \o <<Quote>>

RECURSIVE Dumps(_)
RECURSIVE DumpPairs(_)
DumpPairs(m) ==
    LET p    == CHOOSE q \in m : TRUE
        rest == m \ {p}
    IN  DumpStr(p[1]) \o <<":", " ">> \o Dumps(p[2])
            \o (IF rest = {} THEN <<>> ELSE <<",", " ">> \o DumpPairs(rest))

Dumps(v) ==
    IF v.t = "str" THEN DumpStr(v.s)
    ELSE IF v.m = {} THEN <<"{", "}">>
    ELSE <<"{">> \o DumpPairs(v.m) \o <<"}">>

Objects ==
    {ObjVal({}),
     ObjVal({<<<<"x">>, StrVal(<<"x">>)>>}),
     ObjVal({<<<<"x">>, StrVal(<<"}", "{">>)>>}),
     ObjVal({<<<<"x">>, StrVal(Fence)>>}),
     ObjVal({<<<<"x">>, ObjVal({})>>}),
     ObjVal({<<<<"j">>, StrVal(<<>>)>>, <<<<"s">>, ObjVal({<<<<"x">>, StrVal(<<"x">>)>>})>>})}

FencePairs ==
    {<<<<>>, <<>>>>,
     <<Fence, Fence>>,
     <<Fence \o JsonTag, Fence>>,
     <<Fence \o <<"J", "s", "O", "N">>, Fence>>}

ProseChars == {"x", "{", "}", Backtick}

RECURSIVE SeqsUpTo(_, _)
SeqsUpTo(S, n) ==
    IF n = 0 THEN {<<>>}
    ELSE LET shorter == SeqsUpTo(S, n - 1)
         IN  shorter \cup {<<c>> \o s : c \in S, s \in {t \in shorter : Len(t) = n - 1}}

Prose == SeqsUpTo(ProseChars, MaxProse)

SanInputs ==
    [obj : Objects, fence : FencePairs, outer : 0..MaxWs, inner : 0..MaxWs,
     pre : Prose, post : Prose]

NoInput ==
    [obj |-> ObjVal({}), fence |-> <<<<>>, <<>>>>, outer |-> 0, inner |-> 0,
     pre |-> <<>>, post |-> <<>>]

\* The text of an input: prose, whitespace and fences around the object.
Embed(in) ==
    in.pre \o Repeat(" ", in.outer) \o in.fence[1] \o Repeat("\n", in.inner)
        \o Dumps(in.obj)
        \o Repeat("\n", in.inner) \o in.fence[2] \o Repeat(" ", in.outer) \o in.post

NoOut == Fail("", 0)

(***************************************************************************)
(* State.                                                                  *)
(***************************************************************************)
VARIABLES
    env,              \* the process environment
    phase,            \* "boot", "serving", or "failed" (startup raised)
    HF_TOKEN,         \* module globals read from the environment
    MODEL_ID,
    FRONTEND_ORIGIN,
    reqs,             \* the requests of the run
    sanIn,            \* input and output of the sanitizer check
    sanOut

vars == <<env, phase, HF_TOKEN, MODEL_ID, FRONTEND_ORIGIN, reqs, sanIn, sanOut>>

Reqs == 1..NumReqs

Attributes == {NoneVal, "", "Brand: Zara"}

NewReq ==
    [route |-> "", pc |-> "idle", attributes |-> NoneVal, calls |-> 0,
     sent |-> NoPayload, reply |-> NoReply, parsed |-> FALSE,
     resp |-> NoResp, nresp |-> 0]

Init ==
    /\ env \in [HF_API_KEY : EnvKeys, MODEL_ID : EnvModels, FRONTEND_ORIGIN : EnvOrigins]
    /\ phase = "boot"
    /\ HF_TOKEN = NoneVal
    /\ MODEL_ID = NoneVal
    /\ FRONTEND_ORIGIN = NoneVal
    /\ reqs = [r \in Reqs |-> NewReq]
    /\ sanIn = NoInput
    /\ sanOut = NoOut

\* Import of the module: the configuration is read, and a missing credential
\* raises RuntimeError before the application exists.
Startup ==
    /\ phase = "boot"
    /\ HF_TOKEN' = GetEnv(env.HF_API_KEY, NoneVal)
    /\ MODEL_ID' = GetEnv(env.MODEL_ID, DefaultModel)
    /\ FRONTEND_ORIGIN' = GetEnv(env.FRONTEND_ORIGIN, DefaultOrigin)
    /\ phase' = IF TokenMissing(GetEnv(env.HF_API_KEY, NoneVal)) THEN "failed" ELSE "serving"
    /\ UNCHANGED <<env, reqs, sanIn, sanOut>>

\* Variant: root reports the default model identifier.
root_body_default == [status |-> "ok", model |-> DefaultModel, generated |-> NoVal]

root_body == [status |-> "ok", model |-> MODEL_ID, generated |-> NoVal]

\* GET /
Root(r) ==
    /\ phase = "serving"
    /\ reqs[r].pc = "idle"
    /\ reqs' = [reqs EXCEPT ![r].route = "root", ![r].pc = "done",
                            ![r].resp = Return(root_body), ![r].nresp = @ + 1]
    /\ UNCHANGED <<env, phase, HF_TOKEN, MODEL_ID, FRONTEND_ORIGIN, sanIn, sanOut>>

\* Variant: "req.attributes is None".
AttributesMissingNoneOnly(attributes) == attributes = NoneVal

\* "not req.attributes"
AttributesMissing(attributes) == attributes = NoneVal \/ attributes = ""

MissingAttributes == HTTPException(400, LitDetail("Provide 'attributes' string from your website."))

\* POST /generate up to the point where requests.post blocks.
GenerateBegin(r, attributes) ==
    /\ phase = "serving"
    /\ reqs[r].pc = "idle"
    /\ IF AttributesMissing(attributes)
       THEN reqs' = [reqs EXCEPT ![r].route = "generate", ![r].pc = "done",
                                 ![r].attributes = attributes,
                                 ![r].resp = MissingAttributes, ![r].nresp = @ + 1]
       ELSE reqs' = [reqs EXCEPT ![r].route = "generate", ![r].pc = "posting",
                                 ![r].attributes = attributes,
                                 ![r].sent = Payload(MODEL_ID, build_prompt(attributes)),
                                 ![r].calls = @ + 1]
    /\ UNCHANGED <<env, phase, HF_TOKEN, MODEL_ID, FRONTEND_ORIGIN, sanIn, sanOut>>

\* Variant: a failed upstream call is issued once more before answering.
GenerateEndRetry(r, reply) ==
    /\ phase = "serving"
    /\ reqs[r].pc = "posting"
    /\ LET a == AfterPost(reply)
       IN  IF a.resp.kind # "return" /\ reqs[r].calls < 2
           THEN reqs' = [reqs EXCEPT ![r].calls = @ + 1]
           ELSE reqs' = [reqs EXCEPT ![r].pc = "done", ![r].reply = reply,
                                     ![r].parsed = a.parsed, ![r].resp = a.resp,
                                     ![r].nresp = @ + 1]
    /\ UNCHANGED <<env, phase, HF_TOKEN, MODEL_ID, FRONTEND_ORIGIN, sanIn, sanOut>>

\* POST /generate from the answer of requests.post to the response.
GenerateEnd(r, reply) ==
    /\ phase = "serving"
    /\ reqs[r].pc = "posting"
    /\ LET a == AfterPost(reply)
       IN  reqs' = [reqs EXCEPT ![r].pc = "done", ![r].reply = reply,
                                ![r].parsed = a.parsed, ![r].resp = a.resp,
                                ![r].nresp = @ + 1]
    /\ UNCHANGED <<env, phase, HF_TOKEN, MODEL_ID, FRONTEND_ORIGIN, sanIn, sanOut>>

Next ==
    \/ Startup
    \/ \E r \in Reqs : Root(r)
    \/ \E r \in Reqs, a \in Attributes : GenerateBegin(r, a)
    \/ \E r \in Reqs, reply \in Replies : GenerateEnd(r, reply)

Spec == Init /\ [][Next]_vars

(***************************************************************************)
(* The sanitizer applied to the inputs of SanInputs.                       *)
(***************************************************************************)
SanInit ==
    /\ env = [HF_API_KEY |-> "hf_key", MODEL_ID |-> NoneVal, FRONTEND_ORIGIN |-> NoneVal]
    /\ phase = "boot"
    /\ HF_TOKEN = NoneVal
    /\ MODEL_ID = NoneVal
    /\ FRONTEND_ORIGIN = NoneVal
    /\ reqs = [r \in Reqs |-> NewReq]
    /\ sanIn \in SanInputs
    /\ sanOut = NoOut

Sanitize ==
    /\ sanOut = NoOut
    /\ sanOut' = sanitize_and_parse_json(Embed(sanIn))
    /\ UNCHANGED <<env, phase, HF_TOKEN, MODEL_ID, FRONTEND_ORIGIN, reqs, sanIn>>

SanNext == Sanitize

SanSpec == SanInit /\ [][SanNext]_vars

(***************************************************************************)
(* Properties.                                                             *)
(***************************************************************************)
Success2xx(status) == status \in 200..299

DoneGenerate(r) == reqs[r].route = "generate" /\ reqs[r].pc = "done"

Answered(r) == DoneGenerate(r) /\ reqs[r].reply.kind = "http"

\* C1: a /generate request whose attributes are absent or empty is answered
\* 400 with a detail message, and no upstream call is made for it.
C1_MissingAttributesRejected ==
    \A r \in Reqs :
        (reqs[r].route = "generate" /\ reqs[r].attributes \in {NoneVal, ""}) =>
            /\ reqs[r].pc = "done"
            /\ reqs[r].resp.kind = "HTTPException"
            /\ reqs[r].resp.status = 400
            /\ reqs[r].resp.detail.pre # ""
            /\ reqs[r].calls = 0
            /\ reqs[r].sent = NoPayload
            /\ reqs[r].reply = NoReply

C1_Witness ==
    \E r, q \in Reqs :
        /\ DoneGenerate(r) /\ reqs[r].attributes = ""
        /\ DoneGenerate(q) /\ reqs[q].attributes = NoneVal

\* C2: a non-2xx upstream status S with raw body B is answered with status S
\* and detail B, and the reply content is not parsed.
C2_StatusErrorPassedThrough ==
    \A r \in Reqs :
        (Answered(r) /\ ~Success2xx(reqs[r].reply.status)) =>
            /\ reqs[r].resp.kind = "HTTPException"
            /\ reqs[r].resp.status = reqs[r].reply.status
            /\ reqs[r].resp.detail = TextDetail(reqs[r].reply.body)
            /\ ~reqs[r].parsed

C2_Witness ==
    \E r, q \in Reqs :
        /\ Answered(r) /\ reqs[r].reply = HttpReply(500, Text("text", <<"x">>))
        /\ Answered(q) /\ reqs[q].reply = HttpReply(404, Text("envelope", FencedGood))

\* C3: when the upstream answers with a success status and the model's text
\* has no brace span or a span that is not valid JSON, the answer is 502 and
\* its detail has the parser's message and the raw text.
C3_UnusableTextIs502 ==
    \A r \in Reqs :
        (/\ Answered(r)
         /\ Success2xx(reqs[r].reply.status)
         /\ reqs[r].reply.body.form = "envelope"
         /\ reqs[r].reply.body.content \in {NoBraces, BadSpan}) =>
            /\ reqs[r].resp.kind = "HTTPException"
            /\ reqs[r].resp.status = 502
            /\ reqs[r].resp.detail.err \in {NoJsonMsg, "Expecting property name enclosed in double quotes"}
            /\ reqs[r].resp.detail.raw = reqs[r].reply.body.content

\* The same for the one status the code takes as success.
C3_UnusableTextIs502_On200 ==
    \A r \in Reqs :
        (/\ Answered(r)
         /\ reqs[r].reply.status = 200
         /\ reqs[r].reply.body.form = "envelope"
         /\ reqs[r].reply.body.content \in {NoBraces, BadSpan}) =>
            /\ reqs[r].resp.kind = "HTTPException"
            /\ reqs[r].resp.status = 502
            /\ reqs[r].resp.detail.err \in {NoJsonMsg, "Expecting property name enclosed in double quotes"}
            /\ reqs[r].resp.detail.raw = reqs[r].reply.body.content

\* C4: the sanitizer returns the object itself for every text that holds the
\* object's serialization within optional fences, whitespace and prose.
C4_RoundTripAnyProse ==
    sanOut # NoOut => (sanOut.ok /\ sanOut.v = sanIn.obj)

HasChar(s, c) == \E i \in 1..Len(s) : s[i] = c

\* C4 amended: the same, for leading prose without an opening brace and
\* trailing prose without a closing brace.
C4_RoundTripBraceFreeProse ==
    (sanOut # NoOut /\ ~HasChar(sanIn.pre, "{") /\ ~HasChar(sanIn.post, "}")) =>
        (sanOut.ok /\ sanOut.v = sanIn.obj)

C4_Witness ==
    /\ sanOut.ok
    /\ sanIn.obj = ObjVal({<<<<"x">>, StrVal(<<"}", "{">>)>>})
    /\ sanIn.fence = <<Fence \o <<"J", "s", "O", "N">>, Fence>>
    /\ sanIn.outer = 1 /\ sanIn.inner = 1
    /\ sanIn.pre = <<"x", "}">> /\ sanIn.post = <<"{", "x">>

\* C5: when the sanitizer returns an object R, the answer is 200 with the
\* body {"generated": R}, R unchanged, whatever fields R has.
C5_ResultPassedThrough ==
    \A r \in Reqs :
        (Answered(r) /\ reqs[r].parsed
            /\ sanitize_and_parse_json(reqs[r].reply.body.content).ok) =>
            /\ reqs[r].resp.kind = "return"
            /\ reqs[r].resp.status = 200
            /\ reqs[r].resp.body.generated =
                   sanitize_and_parse_json(reqs[r].reply.body.content).v
            /\ reqs[r].reply.body.content = BareEmpty =>
                   reqs[r].resp.body.generated = ObjVal({})
            /\ reqs[r].reply.body.content = FencedGood =>
                   reqs[r].resp.body.generated = ObjVal({<<<<"x">>, StrVal(<<"x">>)>>})

C5_Witness ==
    \E r, q \in Reqs :
        /\ Answered(r) /\ reqs[r].parsed /\ reqs[r].reply.body.content = FencedGood
        /\ reqs[r].resp.kind = "return"
        /\ Answered(q) /\ reqs[q].parsed /\ reqs[q].reply.body.content = BareEmpty
        /\ reqs[q].resp.kind = "return"

\* C6: every failure of the inference or parse step (timeout, connection
\* failure, a 200 reply that is not the envelope) is answered with an error
\* that carries a detail.
C6_FailuresCarryDetail ==
    \A r \in Reqs :
        (/\ DoneGenerate(r)
         /\ \/ reqs[r].reply.kind \in {"Timeout", "ConnectionError"}
            \/ /\ reqs[r].reply.kind = "http"
               /\ reqs[r].reply.status = 200
               /\ reqs[r].reply.body.form # "envelope") =>
            /\ reqs[r].resp.kind = "HTTPException"
            /\ reqs[r].resp.detail # NoDetail

\* C7: a /generate request makes at most one upstream call, exactly one when
\* its attributes are non-empty, and ends with a single response.
C7_OneCallOneResponse ==
    \A r \in Reqs :
        /\ reqs[r].calls <= 1
        /\ reqs[r].nresp <= 1
        /\ reqs[r].pc = "done" => reqs[r].nresp = 1
        /\ (reqs[r].route = "generate" /\ reqs[r].attributes \notin {NoneVal, ""}) =>
               reqs[r].calls = 1

C7_Witness ==
    \E r, q \in Reqs :
        /\ DoneGenerate(r) /\ reqs[r].reply.kind = "Timeout" /\ reqs[r].calls = 1
        /\ DoneGenerate(q) /\ reqs[q].resp.status = 502 /\ reqs[q].calls = 1

\* C8: GET / answers 200 with status "ok" and the model identifier read at
\* startup, makes no upstream call, and the identifier stays the same
\* whatever /generate requests run beside it.
C8_RootReportsStartupModel ==
    LET M == IF env.MODEL_ID = NoneVal THEN DefaultModel ELSE env.MODEL_ID
    IN  /\ phase = "serving" => MODEL_ID = M
        /\ \A r \in Reqs :
               (reqs[r].route = "root" /\ reqs[r].pc = "done") =>
                   /\ reqs[r].resp.kind = "return"
                   /\ reqs[r].resp.status = 200
                   /\ reqs[r].resp.body.status = "ok"
                   /\ reqs[r].resp.body.model = M
                   /\ reqs[r].calls = 0

C8_Witness ==
    \E r, q \in Reqs :
        /\ reqs[r].route = "root" /\ reqs[r].pc = "done"
        /\ env.MODEL_ID = "some/model"
        /\ DoneGenerate(q) /\ reqs[q].reply.kind = "ConnectionError"

\* C9: without the credential (unset or empty) startup fails and nothing is
\* ever served or called; with it, startup succeeds and the model identifier
\* and the origin take their defaults when unset.
C9_CredentialRequired ==
    /\ env.HF_API_KEY \in {NoneVal, ""} =>
           /\ phase # "serving"
           /\ \A r \in Reqs : reqs[r] = NewReq
    /\ (env.HF_API_KEY \notin {NoneVal, ""} /\ phase # "boot") =>
           /\ phase = "serving"
           /\ env.MODEL_ID = NoneVal => MODEL_ID = DefaultModel
           /\ env.FRONTEND_ORIGIN = NoneVal => FRONTEND_ORIGIN = "*"

C9_Witness == phase = "failed" /\ env.HF_API_KEY = ""

C9_WitnessServing ==
    phase = "serving" /\ env.MODEL_ID = NoneVal /\ env.FRONTEND_ORIGIN = NoneVal

\* C10: an upstream reply is answered as a passthrough status error exactly
\* when its status is not a 2xx status.
C10_PassthroughIffNon2xx ==
    \A r \in Reqs :
        Answered(r) =>
            ((/\ reqs[r].resp.kind = "HTTPException"
              /\ reqs[r].resp.status = reqs[r].reply.status
              /\ reqs[r].resp.detail = TextDetail(reqs[r].reply.body))
             <=> ~Success2xx(reqs[r].reply.status))

====
